---- MODULE Spec2Model ----
(***************************************************************************)
(* Model of src/main.py: the guardrail-gated medicine query bot.           *)
(*                                                                         *)
(* main() reads one line at a time; a non-empty, non-exit line is handed   *)
(* to run_query, which awaits Runner.run(triage_agent, ...).  triage_agent *)
(* carries the input guardrail medicine_guardrail and the handoff target   *)
(* medicine_agent.  Every model invocation is an external call whose       *)
(* result (or failure) is drawn nondeterministically.                      *)
(*                                                                         *)
(* Python values that reach medicine_guardrail are tagged records (field   *)
(* t is the Python type), so that isinstance, dict.get and bool() are      *)
(* computed as Python computes them.                                       *)
(***************************************************************************)
EXTENDS Integers, Sequences, FiniteSets, TLC

VARIABLES pc, line, question, inflight, guard, output, verdict,
          triage, medicine, printed, log

vars == <<pc, line, question, inflight, guard, output, verdict,
          triage, medicine, printed, log>>

\* Number of queries main forwards to run_query before the model stops
\* exploring further queries.
MaxQueries == 3

----------------------------------------------------------------------------
\* Python values

PyNone == [t |-> "NoneType"]

PyBool(b) == [t |-> "bool", b |-> b]

PyInt(i) == [t |-> "int", i |-> i]

PyStr(s) == [t |-> "str", s |-> s]

PyDict(items) == [t |-> "dict", items |-> items]

\* class MedicineOutput(BaseModel): response: str; isMedicineQuery: bool
MedicineOutput(response, isMedicineQuery) ==
    [t |-> "MedicineOutput", response |-> response,
     isMedicineQuery |-> isMedicineQuery]

isinstance(v, T) == v.t = T

\* Python truth value of v
bool(v) ==
    CASE v.t = "bool" -> v.b
      [] v.t = "int" -> v.i # 0
      [] v.t = "str" -> v.s # ""
      [] v.t = "dict" -> DOMAIN v.items # {}
      [] v.t = "NoneType" -> FALSE
      [] OTHER -> TRUE

\* d.get(key, default)
get(d, key, default) ==
    IF key \in DOMAIN d.items THEN d.items[key] ELSE default

\* The shapes result.final_output of the guardrail agent is drawn from.
ClassifierOutputs ==
    { MedicineOutput("ok", TRUE),
      MedicineOutput("ok", FALSE),
      PyDict("isMedicineQuery" :> PyBool(TRUE)),
      PyDict("isMedicineQuery" :> PyBool(FALSE)),
      PyDict("isMedicineQuery" :> PyStr("false")),
      PyDict("isMedicineQuery" :> PyStr("")),
      PyDict("isMedicineQuery" :> PyInt(1)),
      PyDict("isMedicineQuery" :> PyNone),
      PyDict("response" :> PyStr("ok")),
      PyDict(<<>>),
      PyStr(""),
      PyStr("yes"),
      PyNone }

\* Not yet assigned (a local of a coroutine that has not reached the assignment).
Unset == [t |-> "unset"]

----------------------------------------------------------------------------
\* The guardrail function

\* tripwire_triggered = is_medicine: the negation dropped
medicine_guardrail_NotNegated(out) ==
    LET is_medicine ==
          IF isinstance(out, "MedicineOutput") THEN out.isMedicineQuery
          ELSE IF isinstance(out, "dict")
               THEN bool(get(out, "isMedicineQuery", PyBool(FALSE)))
               ELSE FALSE
    IN [output_info |-> out, tripwire_triggered |-> is_medicine]

\* the isinstance(output, MedicineOutput) branch lost
medicine_guardrail_NoStructuredBranch(out) ==
    LET is_medicine ==
          IF isinstance(out, "dict")
          THEN bool(get(out, "isMedicineQuery", PyBool(FALSE)))
          ELSE FALSE
    IN [output_info |-> out, tripwire_triggered |-> ~is_medicine]

\* the isinstance(output, dict) branch lost
medicine_guardrail_NoDictBranch(out) ==
    LET is_medicine ==
          IF isinstance(out, "MedicineOutput") THEN out.isMedicineQuery
          ELSE FALSE
    IN [output_info |-> out, tripwire_triggered |-> ~is_medicine]

\* is_medicine kept across calls: once a query was blocked, it stays False
medicine_guardrail_Sticky(out) ==
    LET is_medicine ==
          IF \E i \in 1..Len(log) : log[i].outcome = "blocked" THEN FALSE
          ELSE IF isinstance(out, "MedicineOutput") THEN out.isMedicineQuery
          ELSE IF isinstance(out, "dict")
               THEN bool(get(out, "isMedicineQuery", PyBool(FALSE)))
               ELSE FALSE
    IN [output_info |-> out, tripwire_triggered |-> ~is_medicine]

medicine_guardrail(out) ==
    LET is_medicine ==
          IF isinstance(out, "MedicineOutput") THEN out.isMedicineQuery
          ELSE IF isinstance(out, "dict")
               THEN bool(get(out, "isMedicineQuery", PyBool(FALSE)))
               ELSE FALSE
    IN [output_info |-> out, tripwire_triggered |-> ~is_medicine]

----------------------------------------------------------------------------
\* Input lines

Whitespace == {" ", "\t", "\n", "\r"}

Upper == <<"A","B","C","D","E","F","G","H","I","J","K","L","M",
           "N","O","P","Q","R","S","T","U","V","W","X","Y","Z">>

Lower == <<"a","b","c","d","e","f","g","h","i","j","k","l","m",
           "n","o","p","q","r","s","t","u","v","w","x","y","z">>

LowerChar(c) ==
    IF \E i \in 1..Len(Upper) : Upper[i] = c
    THEN Lower[CHOOSE i \in 1..Len(Upper) : Upper[i] = c]
    ELSE c

\* str.lower()
lower(s) == [i \in 1..Len(s) |-> LowerChar(s[i])]

RECURSIVE lstrip(_)
lstrip(s) ==
    IF s # <<>> /\ Head(s) \in Whitespace THEN lstrip(Tail(s)) ELSE s

RECURSIVE rstrip(_)
rstrip(s) ==
    IF s # <<>> /\ s[Len(s)] \in Whitespace
    THEN rstrip(SubSeq(s, 1, Len(s) - 1))
    ELSE s

\* str.strip()
strip(s) == rstrip(lstrip(s))

\* The tuple ("exit", "quit") of the loop's exit test
ExitTokens == { <<"e","x","i","t">>, <<"q","u","i","t">> }

\* Lines that are an exit token in some letter case, with surrounding blanks
ExitLines ==
    { <<"e","x","i","t">>,
      <<"E","X","I","T">>,
      <<" ","Q","u","i","t"," ">>,
      <<"q","u","i","T","\t">> }

\* Lines that are empty or whitespace only
BlankLines == { <<>>, <<" "," ">>, <<"\t">> }

\* Lines that are queries (among them near misses of the exit tokens)
QueryLines ==
    { <<"f","l","u">>,
      <<" ","F","l","u","?"," ">>,
      <<"e","x","i","t","s">>,
      <<"q"," ","u","i","t">> }

\* What input() can return
Lines == ExitLines \cup BlankLines \cup QueryLines

----------------------------------------------------------------------------
\* State

Init ==
    /\ pc = "prompt"
    /\ line = <<>>
    /\ question = <<>>
    /\ inflight = 0
    /\ guard = "idle"
    /\ output = Unset
    /\ verdict = Unset
    /\ triage = "idle"
    /\ medicine = "idle"
    /\ printed = <<>>
    /\ log = <<>>

\* What the classifier said about the query, as the log records it
Classified(out) ==
    IF out.t = "MedicineOutput"
    THEN (IF out.isMedicineQuery THEN "relevant" ELSE "not_relevant")
    ELSE "other"

\* run_query returns after printing; run_until_complete returns to the loop
Returns(notice) ==
    /\ printed' = Append(printed, notice)
    /\ inflight' = inflight - 1
    /\ pc' = "prompt"

\* An exception other than the tripwire leaves run_query and then main
Propagates ==
    /\ inflight' = inflight - 1
    /\ pc' = "crashed"
    /\ UNCHANGED <<printed, log>>

----------------------------------------------------------------------------
\* main

\* line 191: question.lower() in ("exit", "quit")
\* the exit test without .lower()
IsExit_CaseSensitive(q) == q \in ExitTokens

IsExit(q) == lower(q) \in ExitTokens

MainExit(l) ==
    /\ pc = "prompt"
    /\ IsExit(strip(l))
    /\ line' = l
    /\ question' = strip(l)
    /\ pc' = "terminated"
    /\ UNCHANGED <<inflight, guard, output, verdict, triage, medicine,
                   printed, log>>

MainSkipEmpty(l) ==
    /\ pc = "prompt"
    /\ ~IsExit(strip(l))
    /\ strip(l) = <<>>
    /\ line' = l
    /\ question' = strip(l)
    /\ UNCHANGED <<pc, inflight, guard, output, verdict, triage, medicine,
                   printed, log>>

\* the coroutine scheduled without waiting for it
MainRunQuery_NoWait(l) ==
    /\ pc = "prompt"
    /\ lower(strip(l)) \notin ExitTokens
    /\ strip(l) # <<>>
    /\ Len(log) < MaxQueries
    /\ line' = l
    /\ question' = strip(l)
    /\ pc' = "prompt"
    /\ inflight' = inflight + 1
    /\ guard' = "running"
    /\ output' = Unset
    /\ verdict' = Unset
    /\ triage' = "idle"
    /\ medicine' = "idle"
    /\ printed' = <<>>
    /\ UNCHANGED log

\* loop.run_until_complete(run_query(question)): run_query starts and
\* Runner.run starts the input guardrail, whose first step is the call of
\* guardrail_agent; main waits.
MainRunQuery(l) ==
    /\ pc = "prompt"
    /\ ~IsExit(strip(l))
    /\ strip(l) # <<>>
    /\ Len(log) < MaxQueries
    /\ line' = l
    /\ question' = strip(l)
    /\ pc' = "waiting"
    /\ inflight' = inflight + 1
    /\ guard' = "running"
    /\ output' = Unset
    /\ verdict' = Unset
    /\ triage' = "idle"
    /\ medicine' = "idle"
    /\ printed' = <<>>
    /\ UNCHANGED log

----------------------------------------------------------------------------
\* Runner.run(triage_agent, user_query) inside run_query

\* The call of guardrail_agent returns out; medicine_guardrail builds the
\* verdict.  A triggered tripwire is raised as InputGuardrailTripwireTriggered
\* out of Runner.run and caught at line 181, which prints the block notice.
ClassifierReturns(out) ==
    /\ inflight > 0
    /\ guard = "running"
    /\ output' = out
    /\ verdict' = medicine_guardrail(out)
    /\ IF verdict'.tripwire_triggered
       THEN /\ guard' = "tripped"
            /\ Returns("block")
            /\ log' = Append(log, [classified |-> Classified(out),
                                   outcome |-> "blocked"])
       ELSE /\ guard' = "allowed"
            /\ UNCHANGED <<pc, inflight, printed, log>>
    /\ UNCHANGED <<line, question, triage, medicine>>

\* The call of guardrail_agent fails
ClassifierFails ==
    /\ inflight > 0
    /\ guard = "running"
    /\ guard' = "failed"
    /\ Propagates
    /\ UNCHANGED <<line, question, output, verdict, triage, medicine>>

\* The first turn of triage_agent: its model call begins.  The agents
\* library starts it together with the input guardrails of the starting
\* agent, so it may begin while the guardrail is still running or after
\* it has allowed the query; the source does not order the two.
TriageBegins ==
    /\ inflight > 0
    /\ guard \in {"running", "allowed"}
    /\ triage = "idle"
    /\ triage' = "running"
    /\ UNCHANGED <<pc, line, question, inflight, guard, output, verdict,
                   medicine, printed, log>>

\* The model answers for triage_agent: a final output or a handoff
TriageReturns(r) ==
    /\ inflight > 0
    /\ triage = "running"
    /\ r \in {"final", "handoff"}
    /\ triage' = r
    /\ UNCHANGED <<pc, line, question, inflight, guard, output, verdict,
                   medicine, printed, log>>

TriageFails ==
    /\ inflight > 0
    /\ triage = "running"
    /\ triage' = "failed"
    /\ Propagates
    /\ UNCHANGED <<line, question, guard, output, verdict, medicine>>

\* the handoff taken without waiting for the input guardrail
Handoff_Ungated ==
    /\ inflight > 0
    /\ triage = "handoff"
    /\ medicine = "idle"
    /\ medicine' = "running"
    /\ UNCHANGED <<pc, line, question, inflight, guard, output, verdict,
                   triage, printed, log>>

\* handoffs=[medicine_agent]: the next turn runs medicine_agent.  The next
\* turn starts only when the first turn and the input guardrails are done.
Handoff ==
    /\ inflight > 0
    /\ guard = "allowed"
    /\ triage = "handoff"
    /\ medicine = "idle"
    /\ medicine' = "running"
    /\ UNCHANGED <<pc, line, question, inflight, guard, output, verdict,
                   triage, printed, log>>

MedicineReturns ==
    /\ inflight > 0
    /\ medicine = "running"
    /\ medicine' = "final"
    /\ UNCHANGED <<pc, line, question, inflight, guard, output, verdict,
                   triage, printed, log>>

MedicineFails ==
    /\ inflight > 0
    /\ medicine = "running"
    /\ medicine' = "failed"
    /\ Propagates
    /\ UNCHANGED <<line, question, guard, output, verdict, triage>>

\* Runner.run returns result; lines 178-180 print the answer
PrintAnswer ==
    /\ inflight > 0
    /\ guard = "allowed"
    /\ (triage = "final" \/ medicine = "final")
    /\ Returns("answer")
    /\ log' = Append(log, [classified |-> Classified(output),
                           outcome |-> "answered"])
    /\ UNCHANGED <<line, question, guard, output, verdict, triage, medicine>>

Next ==
    \/ \E l \in Lines : MainExit(l)
    \/ \E l \in Lines : MainSkipEmpty(l)
    \/ \E l \in Lines : MainRunQuery(l)
    \/ \E out \in ClassifierOutputs : ClassifierReturns(out)
    \/ ClassifierFails
    \/ TriageBegins
    \/ \E r \in {"final", "handoff"} : TriageReturns(r)
    \/ TriageFails
    \/ Handoff
    \/ MedicineReturns
    \/ MedicineFails
    \/ PrintAnswer

Spec == Init /\ [][Next]_vars

----------------------------------------------------------------------------
\* Properties

Range(f) == { f[i] : i \in DOMAIN f }

\* The classifier reported a MedicineOutput with isMedicineQuery = b
Reported(b) == output.t = "MedicineOutput" /\ output.isMedicineQuery = b

\* A MedicineOutput, or a mapping holding a boolean isMedicineQuery
WellFormed(out) ==
    \/ out.t = "MedicineOutput"
    \/ /\ out.t = "dict"
       /\ "isMedicineQuery" \in DOMAIN out.items
       /\ out.items["isMedicineQuery"].t = "bool"

\* isRelevant of a well-formed classifier output
IsRelevant(out) ==
    IF out.t = "MedicineOutput" THEN out.isMedicineQuery
    ELSE out.items["isMedicineQuery"].b

\* The guardrail has produced its verdict for the current query
Decided == guard \in {"allowed", "tripped"}

\* An external model invocation of the current query failed
InvocationFailed ==
    guard = "failed" \/ triage = "failed" \/ medicine = "failed"

\* C1: when the classifier reports isMedicineQuery = false, the block notice
\* is printed (and nothing else), run_query is over, and medicine_agent was
\* not invoked for that query.
C1_BlockedNeverReachesSpecialist ==
    Reported(FALSE) =>
        /\ printed = <<"block">>
        /\ medicine = "idle"
        /\ inflight = 0

\* C1 witness: a query classified not relevant was blocked while the
\* router's call was already under way.
C1_Witness ==
    /\ Reported(FALSE)
    /\ printed = <<"block">>
    /\ triage = "running"
    /\ pc = "prompt"

\* C2 as stated: whenever the classifier reported isMedicineQuery = true and
\* the run is over, the answer was printed.
C2_RelevantAlwaysAnswered ==
    (Reported(TRUE) /\ inflight = 0) => printed = <<"answer">>

\* C2 amended: when the classifier reports isMedicineQuery = true, the block
\* notice is never printed for that query, and when the run is over either
\* the answer was printed or a triage_agent / medicine_agent invocation
\* failed.
C2_RelevantAnsweredUnlessResponderFails ==
    Reported(TRUE) =>
        /\ "block" \notin Range(printed)
        /\ inflight = 0 =>
             \/ printed = <<"answer">>
             \/ /\ printed = <<>>
                /\ (triage = "failed" \/ medicine = "failed")

\* C2 witness: a query classified relevant was handed to medicine_agent and
\* its answer printed.
C2_Witness ==
    /\ Reported(TRUE)
    /\ medicine = "final"
    /\ printed = <<"answer">>
    /\ pc = "prompt"

\* C3: every classifier output that is not well-formed yields
\* tripwire_triggered = true.
C3_FailClosed ==
    (Decided /\ ~WellFormed(output)) => verdict.tripwire_triggered

\* C4: a failed model invocation is reported as an error notice and the loop
\* is back at the prompt.
C4_FailureBecomesAborted ==
    InvocationFailed => (pc = "prompt" /\ printed = <<"error">>)

\* C5: once the run of a query is over, exactly one outcome has been printed
\* and control is back at the prompt.
C5_ExactlyOneOutcome ==
    (inflight = 0 /\ question # <<>> /\ ~IsExit(question)) =>
        /\ Len(printed) = 1
        /\ printed[1] \in {"answer", "block", "error"}
        /\ pc = "prompt"

\* C6: the loop has ended through its exit test exactly when the line read
\* was exit or quit in some letter case (blanks around it stripped), and a
\* step that reads a blank line starts no run_query and no model invocation.
C6_ExitTokensAndBlankLines ==
    /\ [](pc = "terminated" <=> line \in ExitLines)
    /\ [][line' \in BlankLines =>
            /\ inflight' = 0
            /\ UNCHANGED <<guard, triage, medicine, output, verdict, log>>]_vars

\* C6 witness: the loop ended on " Quit " after a query had been processed.
C6_Witness ==
    /\ pc = "terminated"
    /\ line = <<" ","Q","u","i","t"," ">>
    /\ Len(log) > 0

C8_OneQueryInFlight ==
    /\ inflight \in {0, 1}
    /\ pc = "prompt" => inflight = 0
    /\ inflight = 1 => pc = "waiting"

\* C8 witness: a second query is in flight after the first one was answered.
C8_Witness ==
    /\ inflight = 1
    /\ pc = "waiting"
    /\ Len(log) = 1
    /\ medicine = "running"

\* C9: for a well-formed classifier output, tripwire_triggered is the
\* negation of isMedicineQuery and output_info is the classifier output.
C9_VerdictMirrorsClassifier ==
    (Decided /\ WellFormed(output)) =>
        /\ verdict.tripwire_triggered = ~IsRelevant(output)
        /\ verdict.output_info = output

\* C9 witness: a mapping with isMedicineQuery = True was allowed.
C9_Witness ==
    /\ guard = "allowed"
    /\ output = PyDict("isMedicineQuery" :> PyBool(TRUE))
    /\ ~verdict.tripwire_triggered

\* C10: every finished query classified relevant was answered and every
\* finished query classified not relevant was blocked, whatever the outcomes
\* of the queries before it.
C10_NoCrossQueryState ==
    \A i \in 1..Len(log) :
        /\ log[i].classified = "relevant" => log[i].outcome = "answered"
        /\ log[i].classified = "not_relevant" => log[i].outcome = "blocked"

\* C10 witness: a blocked query, then an answered one, then a blocked one.
C10_Witness ==
    /\ Len(log) = 3
    /\ log[1] = [classified |-> "not_relevant", outcome |-> "blocked"]
    /\ log[2] = [classified |-> "relevant", outcome |-> "answered"]
    /\ log[3] = [classified |-> "not_relevant", outcome |-> "blocked"]

====
